---- MODULE Spec2Model ----
(***************************************************************************)
(* A model of src/src/set.h: an ordered set on an unbalanced binary search *)
(* tree whose nodes keep a list ("share") of the iterators positioned on   *)
(* them.  The heap is a function from addresses to node records; the       *)
(* anchors (set::fake_) live at negative addresses, value nodes at 1..N.   *)
(* An operation that fails an assert ends the run with status "assert";    *)
(* one that executes undefined behaviour (null or dangling dereference,    *)
(* reading value_ of an anchor, delete of an anchor) ends it with status   *)
(* "ub" and an arbitrary result.                                           *)
(***************************************************************************)
EXTENDS Integers, Sequences, FiniteSets, TLC

\* Bounds of the model.
MaxNodes == 4
MaxVal == 4
MaxSteps == 6

\* nullptr
Null == 0
\* The containers a run declares, and the local `copy` of set::operator=.
Sets == {1, 2}
TmpSet == 3
AllSets == Sets \cup {TmpSet}
\* &c.fake_
Fake(c) == 0 - c
Anchors == {Fake(c) : c \in AllSets}
Nodes == 1..MaxNodes
Values == 1..MaxVal
Addr == Anchors \cup Nodes
\* What a pointer walk yields once it has dereferenced an invalid pointer.
Bad == 0 - (TmpSet + 1)
Fuel == MaxNodes + 4

\* Iterator objects: the named ones of the run, and the temporaries of a call:
\* the iterator a call returns, erase's by-value `pos`, erase(value)'s local.
Iters == {1, 2}
RetIt == 0
PosIt == -1
LocIt == -2
ItIds == {LocIt, PosIt, RetIt} \cup Iters

VARIABLES heap, iters, size, status, last, budget

vars == <<heap, iters, size, status, last, budget>>

St == [h |-> heap, it |-> iters, sz |-> size]

Res(s, st, ret) == [s |-> s, st |-> st, ret |-> ret]

\* v, named x in F.
Bind(v, F(_)) == F(v)

FreeRec == [left |-> Null, right |-> Null, parent |-> Null, value |-> 0,
            share |-> <<>>, alive |-> FALSE]

NoIter == [node |-> Null, cont |-> 0]

Valid(s, p) == p \in Addr /\ s.h[p].alive

IsNode(s, p) == p \in Nodes /\ s.h[p].alive

Live(s, c) == s.h[Fake(c)].alive

----------------------------------------------------------------------------
(* sentinel_node *)

add_iterator(s, n, i) == [s EXCEPT !.h[n].share = Append(@, i)]

InSeq(q, i) == \E k \in 1..Len(q) : q[k] = i

FirstAt(q, i) ==
  CHOOSE k \in 1..Len(q) : q[k] = i /\ \A j \in 1..(k - 1) : q[j] # i

RemoveAt(q, k) == SubSeq(q, 1, k - 1) \o SubSeq(q, k + 1, Len(q))

RemoveFirst(q, i) == IF InSeq(q, i) THEN RemoveAt(q, FirstAt(q, i)) ELSE q

remove_iterator(s, n, i) == [s EXCEPT !.h[n].share = RemoveFirst(@, i)]

\* A destructor that resets every iterator there is, not only its own.
destroy_sentinel_all(s, n) ==
  [s EXCEPT !.it = [j \in ItIds |-> [s.it[j] EXCEPT !.node = Null]],
            !.h[n] = FreeRec]

\* ~sentinel_node, then the storage is gone.
destroy_sentinel(s, n) ==
  [s EXCEPT !.it = [j \in ItIds |->
                      IF InSeq(s.h[n].share, j)
                      THEN [s.it[j] EXCEPT !.node = Null]
                      ELSE s.it[j]],
            !.h[n] = FreeRec]

----------------------------------------------------------------------------
(* s_iterator *)

append_to_node(s, i) ==
  IF s.it[i].node # Null THEN add_iterator(s, s.it[i].node, i) ELSE s

s_iterator(s, i, n, c) ==
  append_to_node([s EXCEPT !.it[i] = [node |-> n, cont |-> c]], i)

copy_iterator(s, i, j) == append_to_node([s EXCEPT !.it[i] = s.it[j]], i)

destroy_iterator(s, i) ==
  [(IF s.it[i].node # Null THEN remove_iterator(s, s.it[i].node, i) ELSE s)
     EXCEPT !.it[i] = NoIter]

\* The tail of move_to_another_node: new_node now holds the old node.
leave_node(s, i, old) == IF old # Null THEN remove_iterator(s, old, i) ELSE s

move_to_another_node(s, i, new) ==
  leave_node(append_to_node([s EXCEPT !.it[i].node = new], i), i, s.it[i].node)

assign_iterator(s, i, j) ==
  IF i = j THEN s
  ELSE move_to_another_node([s EXCEPT !.it[i].cont = s.it[j].cont], i,
                            s.it[j].node)

base_assert(s, i) ==
  s.it[i].node # Null /\ s.h[s.it[i].node].left # s.it[i].node

RECURSIVE find_min_walk(_, _, _)
find_min_walk(s, n, k) ==
  IF k = 0 \/ ~Valid(s, n) THEN Bad
  ELSE IF s.h[n].left # Null THEN find_min_walk(s, s.h[n].left, k - 1)
  ELSE n

find_min(s, n) == find_min_walk(s, n, Fuel)

RECURSIVE find_max_walk(_, _, _)
find_max_walk(s, n, k) ==
  IF k = 0 \/ ~Valid(s, n) THEN Bad
  ELSE IF s.h[n].right # Null THEN find_max_walk(s, s.h[n].right, k - 1)
  ELSE n

find_max(s, n) == find_max_walk(s, n, Fuel)

\* The while loop of find_next: up while node is its parent's right child.
RECURSIVE find_next_up(_, _, _, _)
find_next_up(s, node, parent, k) ==
  IF parent = Null THEN Null
  ELSE IF k = 0 \/ ~Valid(s, parent) THEN Bad
  ELSE IF node = s.h[parent].right
       THEN find_next_up(s, parent, s.h[parent].parent, k - 1)
  ELSE parent

find_next(s, n) ==
  IF ~Valid(s, n) THEN Bad
  ELSE IF s.h[n].right # Null THEN find_min(s, s.h[n].right)
  ELSE find_next_up(s, n, s.h[n].parent, Fuel)

\* The while loop of operator--: up while new_node is its parent's left child.
RECURSIVE dec_up(_, _, _, _)
dec_up(s, node, parent, k) ==
  IF parent = Null THEN Null
  ELSE IF k = 0 \/ ~Valid(s, parent) THEN Bad
  ELSE IF node = s.h[parent].left
       THEN dec_up(s, parent, s.h[parent].parent, k - 1)
  ELSE parent

\* The node operator-- moves to.
dec_target(s, n) ==
  IF s.h[n].left # Null THEN find_max(s, s.h[n].left)
  ELSE dec_up(s, n, s.h[n].parent, Fuel)

\* operator* and operator->: ret is the value read.
deref(s, i) ==
  IF ~base_assert(s, i) THEN Res(s, "assert", 0)
  ELSE IF s.it[i].node \in Nodes THEN Res(s, "ok", s.h[s.it[i].node].value)
  ELSE Res(s, "ub", 0)

\* operator++: ret is the node moved to.
increment(s, i) ==
  IF ~base_assert(s, i) THEN Res(s, "assert", Null)
  ELSE Bind(find_next(s, s.it[i].node), LAMBDA n :
         IF n = Bad THEN Res(s, "ub", Null)
         ELSE Res(move_to_another_node(s, i, n), "ok", n))

\* operator--: ret is the node moved to; the second base_assert ends it.
decrement(s, i) ==
  IF ~base_assert(s, i) THEN Res(s, "assert", Null)
  ELSE Bind(dec_target(s, s.it[i].node), LAMBDA n :
         IF n = Bad THEN Res(s, "ub", Null)
         ELSE Bind(move_to_another_node(s, i, n), LAMBDA s1 :
                Res(s1, IF base_assert(s1, i) THEN "ok" ELSE "assert", n)))

\* operator==: ret is the bool returned.
equal(s, i, j) ==
  IF s.it[i].cont # s.it[j].cont \/ s.it[i].cont = 0
  THEN Res(s, "assert", FALSE)
  ELSE Res(s, "ok", s.it[i].node = s.it[j].node)

\* for (auto it : n->share) it->node_ = n;
reset_share(s, n) ==
  [s EXCEPT !.it = [x \in ItIds |->
                      IF InSeq(s.h[n].share, x)
                      THEN [s.it[x] EXCEPT !.node = n]
                      ELSE s.it[x]]]

\* swap(s_iterator&, s_iterator&)
swap_iterators(s, i, j) ==
  IF s.it[i].node = Null \/ s.it[j].node = Null THEN Res(s, "ub", 0)
  ELSE Res(reset_share(
             reset_share([s EXCEPT !.it[i] = s.it[j], !.it[j] = s.it[i]],
                         s.it[i].node),
             s.it[j].node), "ok", 0)

\* operator= when add_iterator throws in move_to_another_node: the catch
\* block swaps node_ back; container_ was assigned before the call.
assign_iterator_throw(s, i, j) == [s EXCEPT !.it[i].cont = s.it[j].cont]

----------------------------------------------------------------------------
(* set: the tree engine *)

take_root(s, c) == s.h[Fake(c)].left

put_root(s, c, n) == [s EXCEPT !.h[Fake(c)].left = n]

empty(s, c) == s.sz[c] = 0

HasFree(s) == \E n \in Nodes : ~s.h[n].alive

\* operator new hands out the lowest free address.
NewAddr(s) ==
  CHOOSE n \in Nodes : ~s.h[n].alive /\ \A m \in Nodes : m < n => s.h[m].alive

FreeCount(s) == Cardinality({n \in Nodes : ~s.h[n].alive})

\* node(sentinel_node* p, const T& v)
new_node(s, n, p, v) ==
  [s EXCEPT !.h[n] = [left |-> Null, right |-> Null, parent |-> p,
                      value |-> v, share |-> <<>>, alive |-> TRUE]]

\* A subtree of live value nodes only: what del_subtree and copy_tree may walk.
RECURSIVE TreeOk(_, _, _)
TreeOk(s, n, k) ==
  \/ n = Null
  \/ /\ k > 0
     /\ IsNode(s, n)
     /\ TreeOk(s, s.h[n].left, k - 1)
     /\ TreeOk(s, s.h[n].right, k - 1)

RECURSIVE TreeNodes(_, _, _)
TreeNodes(s, n, k) ==
  IF n = Null \/ k = 0 \/ ~IsNode(s, n) THEN {}
  ELSE {n} \cup TreeNodes(s, s.h[n].left, k - 1)
           \cup TreeNodes(s, s.h[n].right, k - 1)

\* new_node->left = <copy>; new_node->left->parent = new_node;
link_left(t, n) ==
  IF t.root # Null
  THEN [t.s EXCEPT !.h[n].left = t.root, !.h[t.root].parent = n]
  ELSE t.s

link_right(t, n) ==
  IF t.root # Null
  THEN [t.s EXCEPT !.h[n].right = t.root, !.h[t.root].parent = n]
  ELSE t.s

\* A copy that hands out the source's own nodes.
copy_tree_shallow(s, r) == [s |-> s, root |-> r]

RECURSIVE copy_tree(_, _)
copy_tree(s, r) ==
  IF r = Null THEN [s |-> s, root |-> Null]
  ELSE Bind(NewAddr(s), LAMBDA n :
         [s |-> link_right(
                  copy_tree(
                    link_left(
                      copy_tree(new_node(s, n, Null, s.h[r].value),
                                s.h[r].left), n),
                    s.h[r].right), n),
          root |-> n])

\* static find(root, val)
RECURSIVE find_in(_, _, _, _)
find_in(s, root, v, k) ==
  IF root = Null THEN Null
  ELSE IF k = 0 \/ ~IsNode(s, root) THEN Bad
  ELSE IF s.h[root].value = v THEN root
  ELSE IF v < s.h[root].value THEN find_in(s, s.h[root].left, v, k - 1)
  ELSE find_in(s, s.h[root].right, v, k - 1)

\* merge, past min_right == right: unhook min_right (m), hang both sides on it.
merge_relocate(s, left, right, m, mp, mr) ==
  Bind(IF s.h[mp].left = m THEN [s EXCEPT !.h[mp].left = mr]
       ELSE [s EXCEPT !.h[mp].right = mr], LAMBDA s1 :
    Bind(IF mr # Null THEN [s1 EXCEPT !.h[mr].parent = mp] ELSE s1,
         LAMBDA s2 :
      [s |-> [s2 EXCEPT !.h[m].left = left, !.h[m].right = right,
                        !.h[left].parent = m, !.h[right].parent = m],
       root |-> m, ok |-> TRUE]))

\* A merge that forgets the left subtree when there is a right one.
merge_drop_left(s, left, right) ==
  IF right = Null THEN [s |-> s, root |-> left, ok |-> TRUE]
  ELSE [s |-> s, root |-> right, ok |-> TRUE]

merge(s, left, right) ==
  IF left = Null THEN [s |-> s, root |-> right, ok |-> TRUE]
  ELSE IF right = Null THEN [s |-> s, root |-> left, ok |-> TRUE]
  ELSE Bind(find_min(s, right), LAMBDA m :
         IF m = Bad \/ ~Valid(s, left)
         THEN [s |-> s, root |-> Null, ok |-> FALSE]
         ELSE IF m = right
         THEN [s |-> [s EXCEPT !.h[m].left = left, !.h[left].parent = m],
               root |-> right, ok |-> TRUE]
         ELSE IF \/ ~Valid(s, s.h[m].parent)
                 \/ (s.h[m].right # Null /\ ~Valid(s, s.h[m].right))
         THEN [s |-> s, root |-> Null, ok |-> FALSE]
         ELSE merge_relocate(s, left, right, m, s.h[m].parent, s.h[m].right))

RECURSIVE del_subtree(_, _)
del_subtree(s, n) ==
  IF n = Null THEN s
  ELSE destroy_sentinel(
         del_subtree(del_subtree(s, s.h[n].left), s.h[n].right), n)

\* A catch block that frees nothing.
copy_unwind_leak(s, n) == s

\* catch (...) { del_subtree(new_node); throw; }
copy_unwind(s, n) == del_subtree(s, n)

\* copy_tree when operator new throws once k nodes have been made: ok is
\* FALSE when the exception leaves the call, k is what is left of the count.
RECURSIVE copy_tree_throw(_, _, _)
copy_tree_throw(s, r, k) ==
  IF r = Null THEN [s |-> s, root |-> Null, k |-> k, ok |-> TRUE]
  ELSE IF k = 0 THEN [s |-> copy_unwind(s, Null), root |-> Null, k |-> 0,
                      ok |-> FALSE]
  ELSE Bind(NewAddr(s), LAMBDA n :
    Bind(copy_tree_throw(new_node(s, n, Null, s.h[r].value), s.h[r].left,
                         k - 1), LAMBDA l :
      IF ~l.ok
      THEN [s |-> copy_unwind(l.s, n), root |-> Null, k |-> 0, ok |-> FALSE]
      ELSE Bind(copy_tree_throw(link_left(l, n), s.h[r].right, l.k),
                LAMBDA rr :
             IF ~rr.ok
             THEN [s |-> copy_unwind(rr.s, n), root |-> Null, k |-> 0,
                   ok |-> FALSE]
             ELSE [s |-> link_right(rr, n), root |-> n, k |-> rr.k,
                   ok |-> TRUE])))

----------------------------------------------------------------------------
(* set: the container shell.  An operation that returns an iterator leaves *)
(* it constructed in RetIt.                                                *)

\* set(size_t)
construct(s, c, n) ==
  [s EXCEPT !.h[Fake(c)] = [left |-> Fake(c), right |-> Null,
                            parent |-> Fake(c), value |-> 0,
                            share |-> <<>>, alive |-> TRUE],
            !.sz[c] = n]

clear(s, c) ==
  IF empty(s, c) THEN Res(s, "ok", 0)
  ELSE IF ~TreeOk(s, take_root(s, c), Fuel) THEN Res(s, "ub", 0)
  ELSE Res([del_subtree(s, take_root(s, c))
              EXCEPT !.h[Fake(c)].left = Null, !.sz[c] = 0], "ok", 0)

\* ~set, then the anchor's own destructor.
destroy_set(s, c) ==
  Bind(clear(s, c), LAMBDA r :
    IF r.st # "ok" THEN Res(s, r.st, 0)
    ELSE Res([destroy_sentinel(r.s, Fake(c)) EXCEPT !.sz[c] = 0], "ok", 0))

\* The body of set(const set& other) once other is known not to be empty.
copy_root(t, c) ==
  [put_root(t.s, c, t.root) EXCEPT !.h[t.root].parent = Fake(c)]

\* set(const set& other); st is "nomem" when operator new has nothing left.
copy_construct(s, c, d) ==
  IF empty(s, d) THEN Res(construct(s, c, s.sz[d]), "ok", 0)
  ELSE IF take_root(s, d) = Null \/ ~TreeOk(s, take_root(s, d), Fuel)
       THEN Res(s, "ub", 0)
  ELSE IF Cardinality(TreeNodes(s, take_root(s, d), Fuel)) > FreeCount(s)
       THEN Res(s, "nomem", 0)
  ELSE Res(copy_root(copy_tree(construct(s, c, s.sz[d]), take_root(s, d)),
                     c), "ok", 0)

\* swap(sentinel_node&, sentinel_node&)
swap_sentinel(s, a, b) ==
  [s EXCEPT !.h[a].left = s.h[b].left, !.h[a].right = s.h[b].right,
            !.h[a].parent = s.h[b].parent,
            !.h[b].left = s.h[a].left, !.h[b].right = s.h[a].right,
            !.h[b].parent = s.h[a].parent]

\* if (p) p->parent = &fake
set_parent(s, p, a) == IF p # Null THEN [s EXCEPT !.h[p].parent = a] ELSE s

\* swap(set&, set&)
swap(s, c, d) ==
  IF \/ (take_root(s, c) # Null /\ ~Valid(s, take_root(s, c)))
     \/ (take_root(s, d) # Null /\ ~Valid(s, take_root(s, d)))
  THEN Res(s, "ub", 0)
  ELSE Res(set_parent(
             set_parent([swap_sentinel(s, Fake(c), Fake(d))
                           EXCEPT !.sz[c] = s.sz[d], !.sz[d] = s.sz[c]],
                        take_root(s, c), Fake(d)),
             take_root(s, d), Fake(c)), "ok", 0)

\* r, or the state before the call when r did not end well.
OrElse(s, r) == IF r.st # "ok" THEN Res(s, r.st, r.ret) ELSE r

\* set& operator=(const set& other)
assign(s, c, d) ==
  IF c = d THEN Res(s, "ok", 0)
  ELSE Bind(copy_construct(s, TmpSet, d), LAMBDA k :
         IF k.st # "ok" THEN Res(s, k.st, 0)
         ELSE Bind(swap(k.s, c, TmpSet), LAMBDA w :
                IF w.st # "ok" THEN Res(s, w.st, 0)
                ELSE OrElse(s, destroy_set(w.s, TmpSet))))

\* set(const set& other) when the allocation after k nodes throws: the catch
\* block zeroes size_ and the members of the unfinished object are destroyed.
\* st is "none" when no such allocation is made.
copy_construct_throw(s, c, d, k) ==
  IF empty(s, d) \/ take_root(s, d) = Null THEN Res(s, "none", 0)
  ELSE IF ~TreeOk(s, take_root(s, d), Fuel) THEN Res(s, "ub", 0)
  ELSE IF \/ k >= Cardinality(TreeNodes(s, take_root(s, d), Fuel))
          \/ k > FreeCount(s)
       THEN Res(s, "none", 0)
  ELSE Res([destroy_sentinel(
              copy_tree_throw(construct(s, c, s.sz[d]), take_root(s, d), k).s,
              Fake(c)) EXCEPT !.sz[c] = 0], "ok", k)

\* set& operator=(const set& other) when `set copy(other)` throws.
assign_throw(s, c, d, k) ==
  IF c = d THEN Res(s, "none", 0) ELSE copy_construct_throw(s, TmpSet, d, k)

end_(s, c) == s_iterator(s, RetIt, Fake(c), c)

begin_(s, c) ==
  IF empty(s, c) THEN Res(end_(s, c), "ok", Fake(c))
  ELSE Bind(find_min(s, take_root(s, c)), LAMBDA m :
         IF m = Bad THEN Res(s, "ub", Null)
         ELSE Res(s_iterator(s, RetIt, m, c), "ok", m))

\* A descent that never notices an equal value and goes right instead.
RECURSIVE insert_walk_dup(_, _, _, _, _)
insert_walk_dup(s, current, parent, v, k) ==
  IF current = Null THEN [ok |-> TRUE, found |-> Null, parent |-> parent]
  ELSE IF k = 0 \/ ~IsNode(s, current)
       THEN [ok |-> FALSE, found |-> Null, parent |-> Null]
  ELSE IF v < s.h[current].value
       THEN insert_walk_dup(s, s.h[current].left, current, v, k - 1)
  ELSE insert_walk_dup(s, s.h[current].right, current, v, k - 1)

\* The descent of insert: the node holding v, or the parent to attach under.
RECURSIVE insert_walk(_, _, _, _, _)
insert_walk(s, current, parent, v, k) ==
  IF current = Null THEN [ok |-> TRUE, found |-> Null, parent |-> parent]
  ELSE IF k = 0 \/ ~IsNode(s, current)
       THEN [ok |-> FALSE, found |-> Null, parent |-> Null]
  ELSE IF v < s.h[current].value
       THEN insert_walk(s, s.h[current].left, current, v, k - 1)
  ELSE IF v > s.h[current].value
       THEN insert_walk(s, s.h[current].right, current, v, k - 1)
  ELSE [ok |-> TRUE, found |-> current, parent |-> parent]

\* insert into the empty set: the new node n becomes the root.
insert_root(s, c, v, n) ==
  s_iterator([put_root(new_node(s, n, Fake(c), v), c, n)
                EXCEPT !.sz[c] = @ + 1, !.h[Fake(c)].parent = Null],
             RetIt, n, c)

\* An attachment with the two sides mixed up.
insert_leaf_flipped(s, c, v, p, n) ==
  [s_iterator(new_node(s, n, p, v), RetIt, n, c)
     EXCEPT !.h[p].left = IF v < s.h[p].value THEN @ ELSE n,
            !.h[p].right = IF v < s.h[p].value THEN n ELSE @,
            !.sz[c] = @ + 1]

\* insert below parent p: the new node n, the iterator, the link, the size.
insert_leaf(s, c, v, p, n) ==
  [s_iterator(new_node(s, n, p, v), RetIt, n, c)
     EXCEPT !.h[p].left = IF v < s.h[p].value THEN n ELSE @,
            !.h[p].right = IF v < s.h[p].value THEN @ ELSE n,
            !.sz[c] = @ + 1]

\* insert(val): ret is the bool of the pair.
insert(s, c, v) ==
  IF empty(s, c)
  THEN IF ~HasFree(s) THEN Res(s, "nomem", FALSE)
       ELSE Res(insert_root(s, c, v, NewAddr(s)), "ok", TRUE)
  ELSE Bind(insert_walk(s, take_root(s, c), Null, v, Fuel), LAMBDA w :
         IF ~w.ok THEN Res(s, "ub", FALSE)
         ELSE IF w.found # Null
         THEN Res(s_iterator(s, RetIt, w.found, c), "ok", FALSE)
         ELSE IF ~HasFree(s) THEN Res(s, "nomem", FALSE)
         ELSE IF w.parent = Null THEN Res(s, "ub", FALSE)
         ELSE Res(insert_leaf(s, c, v, w.parent, NewAddr(s)), "ok", TRUE))

\* catch (...) { if (!new_node) { delete new_node; } throw; }
insert_catch(s, n) == IF n = Null THEN s ELSE s

\* The steps of insert that can throw: operator new, the iterator made from
\* the node, its assignment to `it`, its copy into the returned pair.
Failures == {"node", "temp", "assign", "pair"}

\* insert(val) on the empty set with step f throwing: past operator new the
\* catch block clears the set.
insert_root_throw(s, c, v, f) ==
  IF f = "node" THEN Res(s, "ok", 0)
  ELSE IF f = "assign" \/ ~HasFree(s) THEN Res(s, "none", 0)
  ELSE clear(destroy_iterator(insert_root(s, c, v, NewAddr(s)), RetIt), c)

\* insert(val) with step f throwing; st is "none" when the call does not get
\* to f.
insert_throw(s, c, v, f) ==
  IF empty(s, c) THEN insert_root_throw(s, c, v, f)
  ELSE Bind(insert_walk(s, take_root(s, c), Null, v, Fuel), LAMBDA w :
         IF ~w.ok THEN Res(s, "ub", 0)
         ELSE IF w.found # Null
         THEN Res(s, IF f \in {"temp", "pair"} THEN "ok" ELSE "none", 0)
         ELSE IF f = "node" THEN Res(insert_catch(s, Null), "ok", 0)
         ELSE IF ~HasFree(s) THEN Res(s, "none", 0)
         ELSE IF w.parent = Null THEN Res(s, "ub", 0)
         ELSE IF f \in {"temp", "assign"}
         THEN Res(insert_catch(new_node(s, NewAddr(s), w.parent, v),
                               NewAddr(s)), "ok", 0)
         ELSE Res(destroy_iterator(
                    insert_leaf(s, c, v, w.parent, NewAddr(s)), RetIt),
                  "ok", 0))

\* erase(pos) from the splice on: m is what merge returned, dp del_parent,
\* nd node_to_delete, rv return_value.
erase_splice(m, c, nd, dp, rv) ==
  Bind(IF m.s.h[dp].left = nd THEN [m.s EXCEPT !.h[dp].left = m.root]
       ELSE [m.s EXCEPT !.h[dp].right = m.root], LAMBDA s1 :
    Bind(set_parent(s1, m.root, dp), LAMBDA s2 :
      Bind(IF take_root(s2, c) = nd
           THEN put_root(s2, c, IF m.root # Null THEN m.root ELSE dp)
           ELSE s2, LAMBDA s3 :
        destroy_iterator(
          s_iterator([destroy_sentinel(s3, nd) EXCEPT !.sz[c] = @ - 1],
                     RetIt, rv, c),
          PosIt))))

\* erase(pos) with pos already copied into PosIt (s0 is the state before).
erase_at(s0, s, c, nd) ==
  IF s.it[PosIt].cont # c THEN Res(s0, "assert", Null)
  ELSE IF empty(s, c)
       THEN Res(destroy_iterator(end_(s, c), PosIt), "ok", Fake(c))
  ELSE Bind(find_next(s, nd), LAMBDA rv :
         IF rv = Bad \/ ~IsNode(s, nd) THEN Res(s0, "ub", Null)
         ELSE Bind(merge(s, s.h[nd].left, s.h[nd].right), LAMBDA m :
                IF ~m.ok \/ ~Valid(s, s.h[nd].parent)
                THEN Res(s0, "ub", Null)
                ELSE Res(erase_splice(m, c, nd, s.h[nd].parent, rv),
                         "ok", rv)))

\* erase(const_iterator pos), called with iterator p: ret is the node returned.
erase(s, c, p) == erase_at(s, copy_iterator(s, PosIt, p), c, s.it[p].node)

\* find(const T& val): ret is the node returned.
find(s, c, v) ==
  IF empty(s, c) THEN Res(end_(s, c), "ok", Fake(c))
  ELSE Bind(find_in(s, take_root(s, c), v, Fuel), LAMBDA n :
         IF n = Bad THEN Res(s, "ub", Null)
         ELSE IF n # Null THEN Res(s_iterator(s, RetIt, n, c), "ok", n)
         ELSE Res(end_(s, c), "ok", Fake(c)))

\* erase(val) once find has returned: s1 holds the local `it` in LocIt.
erase_found(s, s1, c) ==
  IF s1.it[LocIt].node = Fake(c)
  THEN Res(destroy_iterator(s1, LocIt), "ok", 0)
  ELSE Bind(erase(s1, c, LocIt), LAMBDA e :
         IF e.st # "ok" THEN Res(s, e.st, 0)
         ELSE Res(destroy_iterator(destroy_iterator(e.s, RetIt), LocIt),
                  "ok", 1))

\* erase(const T& val): ret is the count returned.
erase_value(s, c, v) ==
  Bind(find(s, c, v), LAMBDA f :
    IF f.st # "ok" THEN Res(s, f.st, 0)
    ELSE erase_found(s, destroy_iterator(copy_iterator(f.s, LocIt, RetIt),
                                         RetIt), c))

\* A loop that settles for the first candidate it meets.
RECURSIVE bound_walk_stop(_, _, _, _, _, _)
bound_walk_stop(s, current, result, v, strict, k) ==
  IF current = Null THEN result
  ELSE IF k = 0 \/ ~IsNode(s, current) THEN Bad
  ELSE IF (IF strict THEN s.h[current].value > v ELSE s.h[current].value >= v)
       THEN current
  ELSE bound_walk_stop(s, s.h[current].right, result, v, strict, k - 1)

\* The loop of lower_bound (strict = FALSE) and upper_bound (strict = TRUE).
RECURSIVE bound_walk(_, _, _, _, _, _)
bound_walk(s, current, result, v, strict, k) ==
  IF current = Null THEN result
  ELSE IF k = 0 \/ ~IsNode(s, current) THEN Bad
  ELSE IF (IF strict THEN s.h[current].value > v ELSE s.h[current].value >= v)
       THEN bound_walk(s, s.h[current].left, current, v, strict, k - 1)
  ELSE bound_walk(s, s.h[current].right, result, v, strict, k - 1)

\* The return statement of lower_bound and upper_bound.
bound_result(s, c, n) ==
  IF n = Bad THEN Res(s, "ub", Null)
  ELSE IF n = Null THEN Res(end_(s, c), "ok", Fake(c))
  ELSE Res(s_iterator(s, RetIt, n, c), "ok", n)

lower_bound(s, c, v) ==
  IF empty(s, c) THEN Res(end_(s, c), "ok", Fake(c))
  ELSE bound_result(s, c, bound_walk(s, take_root(s, c), Null, v, FALSE, Fuel))

upper_bound(s, c, v) ==
  IF empty(s, c) THEN Res(end_(s, c), "ok", Fake(c))
  ELSE bound_result(s, c, bound_walk(s, take_root(s, c), Null, v, TRUE, Fuel))

----------------------------------------------------------------------------
(* The program: one step is one statement of a run that declares the       *)
(* containers of Sets and the iterators of Iters.  last is the statement   *)
(* just executed: the call, its container, iterator and argument, and what *)
(* it returned.                                                            *)

Op(op, c, i, v, res) == [op |-> op, c |-> c, i |-> i, v |-> v, res |-> res]

Running == status = "ok"

\* budget is the number of statements the run may still execute.
NoLimit == MaxSteps + 1

Tick == budget > 0 /\ budget' = IF budget = NoLimit THEN budget ELSE budget - 1

Commit(r, l) ==
  /\ Tick
  /\ heap' = r.s.h
  /\ iters' = r.s.it
  /\ size' = r.s.sz
  /\ status' = r.st
  /\ last' = l

\* it_i = <the call>; the temporary dies at the end of the statement.
\* With i = RetIt the returned iterator is discarded.
Store(r, i) ==
  IF r.st # "ok" THEN r
  ELSE IF i = RetIt THEN [r EXCEPT !.s = destroy_iterator(r.s, RetIt)]
  ELSE [r EXCEPT !.s = destroy_iterator(assign_iterator(r.s, i, RetIt), RetIt)]

Start ==
  /\ heap = [a \in Addr |->
               IF a = Fake(1)
               THEN [left |-> a, right |-> Null, parent |-> a, value |-> 0,
                     share |-> <<>>, alive |-> TRUE]
               ELSE FreeRec]
  /\ iters = [i \in ItIds |-> NoIter]
  /\ size = [c \in AllSets |-> 0]
  /\ status = "ok"
  /\ last = Op("init", 0, 0, 0, 0)

\* set<T> c;
Construct(c) ==
  /\ Running /\ ~Live(St, c)
  /\ Commit(Res(construct(St, c, 0), "ok", 0), Op("construct", c, 0, 0, 0))

\* set<T> c(d);
CopyConstruct(c, d) ==
  /\ Running /\ c # d /\ ~Live(St, c) /\ Live(St, d)
  /\ Bind(copy_construct(St, c, d), LAMBDA r :
       r.st # "nomem" /\ Commit(r, Op("copy", c, 0, d, 0)))

\* c = d;
CopyAssign(c, d) ==
  /\ Running /\ Live(St, c) /\ Live(St, d)
  /\ Bind(assign(St, c, d), LAMBDA r :
       r.st # "nomem" /\ Commit(r, Op("assign", c, 0, d, 0)))

\* c goes out of scope.
Destroy(c) ==
  /\ Running /\ Live(St, c)
  /\ Commit(destroy_set(St, c), Op("destroy", c, 0, 0, 0))

\* c.clear();
Clear(c) ==
  /\ Running /\ Live(St, c)
  /\ Commit(clear(St, c), Op("clear", c, 0, 0, 0))

\* swap(c, d);
Swap(c, d) ==
  /\ Running /\ c # d /\ Live(St, c) /\ Live(St, d)
  /\ Commit(swap(St, c, d), Op("swap", c, 0, d, 0))

\* it_i = c.insert(v).first;
Insert(c, v, i) ==
  /\ Running /\ Live(St, c)
  /\ Bind(insert(St, c, v), LAMBDA r :
       r.st # "nomem" /\ Commit(Store(r, i), Op("insert", c, i, v, r.ret)))

\* c.erase(v);
EraseValue(c, v) ==
  /\ Running /\ Live(St, c)
  /\ Bind(erase_value(St, c, v), LAMBDA r :
       Commit(r, Op("erase_value", c, 0, v, r.ret)))

\* it_j = c.erase(it_i);
ErasePos(c, i, j) ==
  /\ Running /\ Live(St, c)
  /\ Bind(erase(St, c, i), LAMBDA r :
       Commit(Store(r, j), Op("erase", c, i, j, r.ret)))

\* it_i = c.find(v);
Find(c, v, i) ==
  /\ Running /\ Live(St, c)
  /\ Bind(find(St, c, v), LAMBDA r :
       Commit(Store(r, i), Op("find", c, i, v, r.ret)))

\* it_i = c.lower_bound(v);
LowerBound(c, v, i) ==
  /\ Running /\ Live(St, c)
  /\ Bind(lower_bound(St, c, v), LAMBDA r :
       Commit(Store(r, i), Op("lower_bound", c, i, v, r.ret)))

\* it_i = c.upper_bound(v);
UpperBound(c, v, i) ==
  /\ Running /\ Live(St, c)
  /\ Bind(upper_bound(St, c, v), LAMBDA r :
       Commit(Store(r, i), Op("upper_bound", c, i, v, r.ret)))

\* it_i = c.begin();
Begin(c, i) ==
  /\ Running /\ Live(St, c)
  /\ Bind(begin_(St, c), LAMBDA r :
       Commit(Store(r, i), Op("begin", c, i, 0, r.ret)))

\* it_i = c.end();
End(c, i) ==
  /\ Running /\ Live(St, c)
  /\ Commit(Store(Res(end_(St, c), "ok", Fake(c)), i),
            Op("end", c, i, 0, Fake(c)))

\* A pointer read through a dangling or null pointer is any pointer.
Havoc(i, op) ==
  \E p \in Addr \cup {Null} :
     /\ Tick
     /\ iters' = [iters EXCEPT ![i].node = p]
     /\ heap' = heap /\ size' = size
     /\ status' = "ub"
     /\ last' = Op(op, 0, i, 0, p)

\* ++it_i;
Inc(i) ==
  /\ Running
  /\ Bind(increment(St, i), LAMBDA r :
       IF r.st = "ub" THEN Havoc(i, "inc")
       ELSE Commit(r, Op("inc", 0, i, 0, r.ret)))

\* --it_i;
Dec(i) ==
  /\ Running
  /\ Bind(decrement(St, i), LAMBDA r :
       IF r.st = "ub" THEN Havoc(i, "dec")
       ELSE Commit(r, Op("dec", 0, i, 0, r.ret)))

\* *it_i;  The value_ read off an anchor is any value.
Deref(i) ==
  /\ Running
  /\ Bind(deref(St, i), LAMBDA r :
       IF r.st = "ub"
       THEN \E g \in 0..MaxVal : Commit(r, Op("deref", 0, i, 0, g))
       ELSE Commit(r, Op("deref", 0, i, 0, r.ret)))

\* it_i = it_j;
Assign(i, j) ==
  /\ Running
  /\ Commit(Res(assign_iterator(St, i, j), "ok", 0),
            Op("it_assign", 0, i, j, 0))

\* it_i = it_j; with the registration in it_j's node throwing.
AssignThrow(i, j) ==
  /\ Running /\ i # j /\ iters[j].node # Null
  /\ Commit(Res(assign_iterator_throw(St, i, j), "ok", 0),
            Op("it_assign_throw", 0, i, j, 0))

\* it_i == it_j;
Equal(i, j) ==
  /\ Running
  /\ Bind(equal(St, i, j), LAMBDA r :
       Commit(r, Op("it_equal", 0, i, j, r.ret)))

\* swap(it_i, it_j);
SwapIt(i, j) ==
  /\ Running
  /\ Commit(swap_iterators(St, i, j), Op("it_swap", 0, i, j, 0))

\* set<T> c(d); with the allocation after k nodes throwing.
CopyConstructThrow(c, d, k) ==
  /\ Running /\ c # d /\ ~Live(St, c) /\ Live(St, d)
  /\ Bind(copy_construct_throw(St, c, d, k), LAMBDA r :
       r.st # "none" /\ Commit(r, Op("copy_throw", c, 0, d, k)))

\* c = d; with the allocation after k nodes throwing.
CopyAssignThrow(c, d, k) ==
  /\ Running /\ Live(St, c) /\ Live(St, d)
  /\ Bind(assign_throw(St, c, d, k), LAMBDA r :
       r.st # "none" /\ Commit(r, Op("assign_throw", c, 0, d, k)))

\* c.insert(v); with step f throwing.
InsertThrow(c, v, f) ==
  /\ Running /\ Live(St, c)
  /\ Bind(insert_throw(St, c, v, f), LAMBDA r :
       r.st # "none" /\ Commit(r, Op("insert_throw", c, 0, v, f)))

\* A run on one container, with trees as deep as MaxNodes allows.
OneIter == {1}

InitTree == Start /\ budget = NoLimit

NextTree ==
  \/ \E v \in Values, i \in OneIter \cup {RetIt} : Insert(1, v, i)
  \/ \E v \in Values : EraseValue(1, v)
  \/ \E i \in OneIter, j \in OneIter \cup {RetIt} : ErasePos(1, i, j)
  \/ \E v \in Values, i \in OneIter : Find(1, v, i)
  \/ \E v \in Values, i \in OneIter : LowerBound(1, v, i)
  \/ \E v \in Values, i \in OneIter : UpperBound(1, v, i)
  \/ \E i \in OneIter : Begin(1, i)
  \/ \E i \in OneIter : End(1, i)
  \/ \E i \in OneIter : Inc(i)
  \/ \E i \in OneIter : Dec(i)
  \/ \E i \in OneIter : Deref(i)
  \/ \E i \in OneIter, j \in OneIter : Assign(i, j)
  \/ Clear(1)

SpecTree == InitTree /\ [][NextTree]_vars

\* A run of at most MaxSteps statements on two containers.
SmallValues == 1..(MaxVal - 2)

Init == Start /\ budget = MaxSteps

Next ==
  \/ \E c \in Sets : Construct(c)
  \/ \E c \in Sets, d \in Sets : CopyConstruct(c, d)
  \/ \E c \in Sets, d \in Sets : CopyAssign(c, d)
  \/ \E c \in Sets : Destroy(c)
  \/ \E c \in Sets : Clear(c)
  \/ \E c \in Sets, d \in Sets : Swap(c, d)
  \/ \E c \in Sets, v \in SmallValues, i \in OneIter \cup {RetIt} :
        Insert(c, v, i)
  \/ \E c \in Sets, v \in SmallValues : EraseValue(c, v)
  \/ \E c \in Sets, i \in OneIter, j \in OneIter \cup {RetIt} :
        ErasePos(c, i, j)
  \/ \E c \in Sets, v \in SmallValues, i \in OneIter : Find(c, v, i)
  \/ \E c \in Sets, i \in OneIter : Begin(c, i)
  \/ \E c \in Sets, i \in OneIter : End(c, i)
  \/ \E i \in OneIter : Inc(i)
  \/ \E i \in OneIter : Dec(i)
  \/ \E i \in OneIter : Deref(i)

Spec == Init /\ [][Next]_vars

\* A run of at most MaxSteps statements on one container and two iterators.
InitErase == Start /\ budget = MaxSteps

NextErase ==
  \/ \E v \in Values, i \in Iters \cup {RetIt} : Insert(1, v, i)
  \/ \E v \in Values, i \in Iters : Find(1, v, i)
  \/ \E v \in Values : EraseValue(1, v)
  \/ \E i \in Iters : ErasePos(1, i, RetIt)
  \/ \E i \in Iters : Deref(i)

SpecErase == InitErase /\ [][NextErase]_vars

\* A run of at most MaxSteps statements on two containers and two iterators.
InitIter == Start /\ budget = MaxSteps

NextIter ==
  \/ \E c \in Sets : Construct(c)
  \/ \E c \in Sets, d \in Sets : Swap(c, d)
  \/ \E c \in Sets, v \in SmallValues, i \in Iters : Insert(c, v, i)
  \/ \E c \in Sets, v \in SmallValues, i \in Iters : Find(c, v, i)
  \/ \E c \in Sets, i \in Iters : End(c, i)
  \/ \E i \in Iters, j \in Iters : Assign(i, j)
  \/ \E i \in Iters, j \in Iters : AssignThrow(i, j)
  \/ \E i \in Iters, j \in Iters : Equal(i, j)
  \/ \E i \in Iters, j \in Iters : SwapIt(i, j)
  \/ \E i \in Iters : Deref(i)

SpecIter == InitIter /\ [][NextIter]_vars

\* A run on two containers, one statement shorter, with copies and with
\* operations that throw.
CopyValues == 1..(MaxVal - 1)

InitCopy == Start /\ budget = MaxSteps - 1

NextCopy ==
  \/ \E c \in Sets : Construct(c)
  \/ \E c \in Sets, d \in Sets : CopyConstruct(c, d)
  \/ \E c \in Sets, d \in Sets, k \in 0..(MaxNodes - 1) :
        CopyConstructThrow(c, d, k)
  \/ \E c \in Sets, d \in Sets : CopyAssign(c, d)
  \/ \E c \in Sets, d \in Sets, k \in 0..(MaxNodes - 1) :
        CopyAssignThrow(c, d, k)
  \/ \E c \in Sets, v \in CopyValues, i \in OneIter \cup {RetIt} :
        Insert(c, v, i)
  \/ \E c \in Sets, v \in CopyValues, f \in Failures : InsertThrow(c, v, f)
  \/ \E c \in Sets, v \in CopyValues : EraseValue(c, v)
  \/ \E c \in Sets, i \in OneIter : ErasePos(c, i, RetIt)

SpecCopy == InitCopy /\ [][NextCopy]_vars

----------------------------------------------------------------------------
(* What a test can observe of a state.                                     *)

\* The value nodes reachable from c's root, and the values they hold.
Reach(s, c) == TreeNodes(s, take_root(s, c), Fuel)

Holds(s, c) == {s.h[n].value : n \in Reach(s, c)}

\* left, right, parent, value and liveness of every node: all but the shares.
Links ==
  [a \in Addr |-> [left |-> heap[a].left, right |-> heap[a].right,
                   parent |-> heap[a].parent, value |-> heap[a].value,
                   alive |-> heap[a].alive]]

\* The positions of an iterator that starts at begin() and is incremented k
\* times: one sequence of k + 1 nodes (in a set, so that it is built once).
RECURSIVE Walk(_, _, _)
Walk(s, c, k) ==
  IF k = 0 THEN {<<begin_(s, c).ret>>}
  ELSE {Append(w, find_next(s, w[Len(w)])) : w \in Walk(s, c, k - 1)}

InOrder(s, c) == Walk(s, c, s.sz[c])

ValueAt(s, n) == IF n \in Nodes THEN s.h[n].value ELSE 0

Visited == {ValueAt(St, w[j]) : w \in InOrder(St, 1), j \in 1..size[1]}

TraversalOk ==
  \A w \in InOrder(St, 1) :
    /\ \A j \in 1..size[1] : IsNode(St, w[j]) /\ heap[w[j]].left # w[j]
    /\ w[size[1] + 1] = Fake(1)
    /\ \A j \in 1..(size[1] - 1) : ValueAt(St, w[j]) < ValueAt(St, w[j + 1])

\* The nodes a step destroyed.
Erased == {n \in Nodes : heap[n].alive /\ ~heap'[n].alive}

\* The sequence w without its k-th entry.
Without(w, k) == [j \in 1..(Len(w) - 1) |-> IF j < k THEN w[j] ELSE w[j + 1]]

Count(q, i) == Cardinality({k \in 1..Len(q) : q[k] = i})

\* The node holding the smallest value >= v (> v when strict), else end().
Expected(s, c, v, strict) ==
  LET cand == {n \in Reach(s, c) :
                 IF strict THEN s.h[n].value > v ELSE s.h[n].value >= v}
  IN IF cand = {} THEN Fake(c)
     ELSE CHOOSE n \in cand : \A m \in cand : s.h[n].value <= s.h[m].value

\* Iterator i stands on end() of the container it belongs to.
AtEnd(i) ==
  /\ iters[i].cont \in Sets
  /\ Live(St, iters[i].cont)
  /\ iters[i].node = Fake(iters[i].cont)

\* Iterator i stands on the first element of its non-empty container.
AtBegin(i) ==
  /\ iters[i].cont \in Sets
  /\ Live(St, iters[i].cont)
  /\ size[iters[i].cont] > 0
  /\ IsNode(St, iters[i].node)
  /\ iters[i].node = begin_(St, iters[i].cont).ret

----------------------------------------------------------------------------
(* The claims.                                                             *)

\* C1: an erase that destroys a node leaves every iterator standing on
\* another element non-singular, on the same node, still in the tree and
\* dereferencing to the same value, also when that node is the in-order
\* successor that merge moves into the erased node's place.
C1_IteratorStableAcrossErase ==
  [][(status' = "ok" /\ last'.op \in {"erase", "erase_value"} /\ Erased # {})
       => \A i \in Iters :
            (IsNode(St, iters[i].node) /\ iters[i].node \notin Erased)
              => /\ iters'[i] = iters[i]
                 /\ deref(St', i) = Res(St', "ok", heap[iters[i].node].value)
                 /\ Count(heap'[iters[i].node].share, i) = 1
                 /\ iters[i].node \in Reach(St', 1)]_vars

\* C1 witness: within MaxSteps statements node MaxNodes was the fourth
\* insert, a leaf; after the erase it has two children, so merge moved it,
\* and iterator 1 is the one standing on it.
C1_RelocatedSuccessorKept ==
  /\ status = "ok" /\ last.op = "erase"
  /\ last.res = MaxNodes
  /\ iters[1].node = MaxNodes
  /\ heap[MaxNodes].alive
  /\ heap[MaxNodes].left # Null /\ heap[MaxNodes].right # Null

\* C2: the set starts empty, and after every insert(v) the walk from
\* begin() by ++ visits size() value nodes in strictly increasing order and
\* then stands on end(), the values visited being those visited before the
\* insert together with v.
C2_InOrderTraversal ==
  /\ Visited = {}
  /\ [][(last'.op = "insert")
          => /\ status' = "ok"
             /\ TraversalOk'
             /\ Visited' = Visited \cup {last'.v}]_vars

\* C2 witness: a full tree whose root got a child on either side, just after
\* an insert that added a node.
C2_BranchingTreeBuilt ==
  /\ status = "ok" /\ last.op = "insert" /\ last.res = TRUE
  /\ size[1] = MaxNodes
  /\ IsNode(St, take_root(St, 1))
  /\ heap[take_root(St, 1)].left # Null
  /\ heap[take_root(St, 1)].right # Null

\* C3: insert(v) with v present returns false and an iterator on the node
\* that holds v, and changes neither size nor any node, link or value.
C3_InsertPresentIsNoOp ==
  [][(last'.op = "insert" /\ last'.v \in Holds(St, 1))
       => /\ status' = "ok"
          /\ last'.res = FALSE
          /\ size' = size
          /\ Links' = Links
          /\ last'.i \in Iters
               => /\ iters'[last'.i].cont = 1
                  /\ iters'[last'.i].node \in Reach(St, 1)
                  /\ heap[iters'[last'.i].node].value = last'.v]_vars

\* C3 witness: an insert that returned false on a three-element set, its
\* iterator kept, standing on a node below the root that holds the value.
C3_DuplicateRejected ==
  /\ status = "ok" /\ last.op = "insert" /\ last.res = FALSE /\ last.i = 1
  /\ size[1] = 3
  /\ IsNode(St, iters[1].node)
  /\ heap[iters[1].node].value = last.v
  /\ iters[1].node # take_root(St, 1)

\* C4: in every state reached without undefined behaviour the size of each
\* live container is the number of value nodes reachable from its root.
C4_SizeIsNodeCount ==
  status = "ok"
    => \A c \in Sets : Live(St, c) => size[c] = Cardinality(Reach(St, c))

\* C5: every non-singular iterator stands on a live node, once in that
\* node's share list and in no other node's.
C5_ShareListsMatchIterators ==
  \A i \in Iters :
    iters[i].node # Null
      => /\ iters[i].node \in Addr
         /\ heap[iters[i].node].alive
         /\ Count(heap[iters[i].node].share, i) = 1
         /\ \A n \in Addr \ {iters[i].node} : ~InSeq(heap[n].share, i)

\* C6: once c.erase(it) has destroyed the element it stood on (it is
\* singular and either the erase returned the next element or it was the
\* second statement of the run), the next use of it fails an assertion.
C6_ErasedIteratorUseAsserts ==
  [][\A i \in Iters :
       (/\ status = "ok" /\ last.op = "erase" /\ last.i = i
        /\ iters[i].node = Null
        /\ (last.res \in Nodes \/ budget = MaxSteps - 2)
        /\ last'.op \in {"deref", "inc", "dec", "erase"} /\ last'.i = i)
         => status' = "assert"]_vars

\* C7: dereferencing an iterator that is singular or stands on end() of its
\* container fails the assertion.
C7_DerefEndAsserts ==
  \A i \in Iters :
    (last.op = "deref" /\ last.i = i /\ (iters[i].node = Null \/ AtEnd(i)))
      => status = "assert"

\* C8: ++ on an iterator standing on end() of its container fails an
\* assertion.
C8_IncrementEndAsserts ==
  [][\A i \in Iters :
       (status = "ok" /\ AtEnd(i) /\ last'.op = "inc" /\ last'.i = i)
         => status' = "assert"]_vars

\* C9: -- on an iterator standing on the first element of its non-empty
\* container fails an assertion.
C9_DecrementBeginAsserts ==
  [][\A i \in Iters :
       (status = "ok" /\ AtBegin(i) /\ last'.op = "dec" /\ last'.i = i)
         => status' = "assert"]_vars

\* C10: lower_bound(v) returns an iterator on the node with the smallest
\* value >= v, upper_bound(v) on the one with the smallest value > v, each
\* end() when there is none, and neither changes size, nodes, links or values.
C10_BoundsAreLeastCandidates ==
  [][(last'.op \in {"lower_bound", "upper_bound"})
       => /\ status' = "ok"
          /\ last'.res = Expected(St, 1, last'.v, last'.op = "upper_bound")
          /\ iters'[last'.i] = [node |-> last'.res, cont |-> 1]
          /\ size' = size
          /\ Links' = Links]_vars

\* C10 witness: lower_bound on a tree of MaxNodes - 1 nodes returned a node
\* below the root whose value is greater than the query, with smaller
\* elements present.
C10_InexactLowerBound ==
  /\ status = "ok" /\ last.op = "lower_bound"
  /\ size[1] = MaxNodes - 1
  /\ last.res \in Nodes
  /\ last.res # take_root(St, 1)
  /\ heap[last.res].value > last.v
  /\ \E n \in Reach(St, 1) : heap[n].value < last.v

\* Iterator i is registered in node n's share list and in no other.
OnlyIn(i, n) ==
  /\ n \in Addr
  /\ Count(heap[n].share, i) = 1
  /\ \A m \in Addr \ {n} : ~InSeq(heap[m].share, i)

\* An anchor pointer p of container c refers to the anchor itself, to null
\* or to a live value node of c's tree.
Home(c, p) == p \in {Fake(c), Null} \/ p \in Reach(St, c)

\* C11: swap(A, B) leaves every iterator that stood on A.end() or B.end()
\* as it was, equal to end() of its container evaluated after the swap,
\* and leaves the anchors' share lists where they were.
C11_EndSurvivesSwap ==
  [][(last'.op = "swap")
       => /\ status' = "ok"
          /\ \A c \in Sets : heap'[Fake(c)].share = heap[Fake(c)].share
          /\ \A i \in Iters :
               AtEnd(i)
                 => /\ iters'[i] = iters[i]
                    /\ equal(end_(St', iters[i].cont), i, RetIt).st = "ok"
                    /\ equal(end_(St', iters[i].cont), i, RetIt).ret]_vars

\* C12: an iterator on an element is accepted by == against the iterator
\* that find returns for that element in the container whose tree holds it,
\* and the two compare equal.
C12_ElementIteratorComparable ==
  \A i \in Iters, j \in Iters :
    (/\ last.op = "it_equal" /\ last.i = i /\ last.v = j
     /\ IsNode(St, iters[i].node)
     /\ iters[j].node = iters[i].node
     /\ iters[j].cont \in Sets
     /\ Live(St, iters[j].cont)
     /\ iters[i].node \in Reach(St, iters[j].cont))
      => status = "ok" /\ last.res = TRUE

\* C18: swap(it1, it2) on non-singular iterators leaves it1 on it2's node,
\* registered there only, and it2 on it1's node, registered there only.
C18_IteratorSwapExchangesNodes ==
  [][\A i \in Iters, j \in Iters :
       (/\ status = "ok" /\ i # j
        /\ iters[i].node # Null /\ iters[j].node # Null
        /\ last'.op = "it_swap" /\ last'.i = i /\ last'.v = j)
         => /\ status' = "ok"
            /\ iters'[i].node = iters[j].node
            /\ iters'[j].node = iters[i].node
            /\ OnlyIn(i, iters[j].node)'
            /\ OnlyIn(j, iters[i].node)']_vars

\* C19: an assignment it = other whose registration throws leaves it with
\* the node, the container and the share-list membership it had.
C19_FailedAssignRestores ==
  [][\A i \in Iters :
       (last'.op = "it_assign_throw" /\ last'.i = i)
         => /\ iters'[i] = iters[i]
            /\ \A n \in Addr : heap'[n].share = heap[n].share]_vars

\* C20: in every state reached without undefined behaviour the left and
\* parent pointers of a live container's anchor refer to the anchor itself,
\* to null or to a live value node of its own tree.
C20_AnchorsPointHome ==
  status = "ok"
    => \A c \in Sets :
         Live(St, c)
           => Home(c, heap[Fake(c)].left) /\ Home(c, heap[Fake(c)].parent)

\* C17: erase(pos) with pos on an element of the container returns the
\* element's in-order successor (end() after the maximum), destroys that
\* element's node and no other, takes one off size(), and leaves the walk
\* from begin() visiting the nodes it visited before, less the erased one.
C17_EraseReturnsSuccessor ==
  [][(/\ last'.op = "erase"
      /\ iters[last'.i].cont = 1
      /\ iters[last'.i].node \in Reach(St, 1))
       => \A w \in InOrder(St, 1) :
            /\ \E k \in 1..size[1] : w[k] = iters[last'.i].node
            /\ \A k \in 1..size[1] :
                 w[k] = iters[last'.i].node
                   => /\ status' = "ok"
                      /\ last'.res = w[k + 1]
                      /\ Erased = {w[k]}
                      /\ size'[1] = size[1] - 1
                      /\ InOrder(St', 1) = {Without(w, k)}]_vars

\* C17 witness: the root (the first node made) was erased while it had two
\* children and its successor, the last node made, was the left child of its
\* right child: that successor was returned and is the root now.
C17_RootWithFarSuccessorErased ==
  /\ status = "ok" /\ last.op = "erase"
  /\ ~heap[1].alive
  /\ last.res = MaxNodes /\ take_root(St, 1) = MaxNodes
  /\ size[1] = MaxNodes - 1
  /\ heap[MaxNodes].left # Null /\ heap[MaxNodes].right # Null

\* C13: two live containers never reach a common value node, and an insert
\* or erase on one container leaves the other's walk from begin(), its
\* size(), its nodes and their links as they were, and leaves every iterator
\* standing on one of the other's nodes on that node, registered there and
\* dereferencing to the same value.
C13_CopyIsIndependent ==
  /\ []((status = "ok") => Reach(St, 1) \cap Reach(St, 2) = {})
  /\ [][(status' = "ok" /\ last'.op \in {"insert", "erase", "erase_value"})
          => \A d \in Sets \ {last'.c} :
               Live(St, d)
                 => /\ InOrder(St', d) = InOrder(St, d)
                    /\ size'[d] = size[d]
                    /\ Reach(St', d) = Reach(St, d)
                    /\ \A n \in Reach(St, d) : Links'[n] = Links[n]
                    /\ \A i \in Iters \ {last'.i} :
                         iters[i].node \in Reach(St, d)
                           => /\ iters'[i] = iters[i]
                              /\ Count(heap'[iters[i].node].share, i) = 1
                              /\ deref(St', i)
                                   = Res(St', "ok", heap[iters[i].node].value)
       ]_vars

\* C13 witness: four statements into the run container 1 holds two elements
\* and container 2 one, so 2 was copy-constructed from 1 and has just had an
\* element erased, while iterator 1 stands on an element of container 1.
C13_CopyMutatedBesideOriginal ==
  /\ status = "ok" /\ last.op = "erase_value" /\ last.c = 2 /\ last.res = 1
  /\ budget = MaxSteps - 5
  /\ size[1] = 2 /\ size[2] = 1
  /\ iters[1].node \in Reach(St, 1)

\* C14: an insert that throws leaves the container with the size(), the
\* nodes and the walk from begin() it had before the call.
C14_FailedInsertChangesNothing ==
  [][(status' = "ok" /\ last'.op = "insert_throw")
       => /\ size'[last'.c] = size[last'.c]
          /\ Reach(St', last'.c) = Reach(St, last'.c)
          /\ InOrder(St', last'.c) = InOrder(St, last'.c)]_vars

\* C15: a copy construction or copy assignment that throws leaves the run
\* defined and the same value nodes allocated as before; every live
\* container, source and destination alike, keeps its size(), its nodes and
\* its walk from begin(); nothing in the heap and no iterator has changed.
C15_FailedCopyRollsBack ==
  [][(last'.op \in {"copy_throw", "assign_throw"})
       => /\ status' = "ok"
          /\ {n \in Nodes : heap'[n].alive} = {n \in Nodes : heap[n].alive}
          /\ \A c \in Sets :
               Live(St, c)
                 => /\ Live(St', c)
                    /\ size'[c] = size[c]
                    /\ Reach(St', c) = Reach(St, c)
                    /\ InOrder(St', c) = InOrder(St, c)
          /\ iters' = iters
          /\ heap' = heap]_vars

\* C15 witness: a copy assignment threw after one node of the copy had been
\* made, its destination holding an element with iterator 1 on it and its
\* source more than one element.
C15_AssignFailedMidCopy ==
  /\ status = "ok" /\ last.op = "assign_throw" /\ last.res = 1
  /\ size[last.c] > 0 /\ size[last.v] > 1
  /\ iters[1].cont = last.c /\ iters[1].node \in Reach(St, last.c)

\* C16: in a defined run every allocated value node is reachable from the
\* root of exactly one live container.
C16_EveryNodeOwnedOnce ==
  (status = "ok")
    => \A n \in Nodes :
         heap[n].alive
           => Cardinality({c \in Sets : Live(St, c) /\ n \in Reach(St, c)}) = 1


====
